---- MODULE Spec2Model ----
(***************************************************************************)
(* Model of app/api/endpoints/bag.py: the shop ranking function            *)
(* calculate_shop_totals_for_products and the /best-shop request handler   *)
(* calculate_best_shop.                                                    *)
(*                                                                         *)
(* Representation.                                                         *)
(*  - A Python str that the code inspects character by character (a shop   *)
(*    identifier, an ObjectId string) is a tuple of one-character strings. *)
(*  - Optional[T] is a tuple of length <= 1: <<>> is None, <<v>> is v.     *)
(*  - A float is an integer count of 1/10000 units, so that round(x, 3)    *)
(*    is a real conversion (to a multiple of 10) and not the identity.     *)
(*    Binary floating-point error of the additions is not modelled.        *)
(*  - A dict with optional keys is a record whose fields say "absent".     *)
(***************************************************************************)
EXTENDS Integers, Sequences, FiniteSets, TLC

VARIABLES products, shop_list, out, request, para_catalog, retail_catalog, response,
          db_calls, stdout

vars == <<products, shop_list, out, request, para_catalog, retail_catalog, response,
          db_calls, stdout>>

(***************************************************************************)
(* Bounds of the model.                                                    *)
(***************************************************************************)
MaxProducts == 2
MaxOffers == 2
MaxShops == 3
MaxItems == 2

None == <<>>
Some(v) == <<v>>

(***************************************************************************)
(* Shop identifiers and str.replace.                                       *)
(***************************************************************************)
ab_c == <<"a", "-", "b", "_", "c">>
a_b_c == <<"a", "_", "b", "_", "c">>
abc == <<"a", "-", "b", "-", "c">>

ShopIds == {ab_c, a_b_c, abc}

\* str.replace(old, new) for one-character old and new: every occurrence.
Replace(s, old, new) == [i \in DOMAIN s |-> IF s[i] = old THEN new ELSE s[i]]

(***************************************************************************)
(* Values stored in a product's "shops" map.                               *)
(***************************************************************************)
PAbsent == [t |-> "absent", v |-> 0]
PNull == [t |-> "null", v |-> 0]
PNum(n) == [t |-> "num", v |-> n]
PStr == [t |-> "str", v |-> 0]

Dict(price, available, images) ==
    [kind |-> "dict", price |-> price, available |-> available, images |-> images]

NoneValue == [kind |-> "null", price |-> PAbsent, available |-> "absent", images |-> None]
EmptyDict == Dict(PAbsent, "absent", None)

\* The offers the inputs are drawn from.
OfferVals ==
    { EmptyDict,
      Dict(PNull, "true", None),
      Dict(PNum(100000), "true", Some(<<"i1", "i2">>)),
      Dict(PNum(50004), "absent", Some(<<>>)),
      Dict(PNum(80000), "false", Some(<<"i1">>)),
      Dict(PNum(-60000), "true", None),
      Dict(PStr, "true", None) }

\* dict.get(key): None when the key is absent.
Get(d, k) == IF k \in DOMAIN d THEN d[k] ELSE NoneValue

\* Python truthiness of a value of the shops map: None and {} are falsy.
Truthy(e) == e.kind = "dict" /\ e # EmptyDict

\* a or b
Or(a, b) == IF Truthy(a) THEN a ELSE b

\* Faulty variant: hyphen and underscore variants consulted before the exact key.
LookupVariantsFirst(shops_data, shop) ==
    Or(Or(Get(shops_data, Replace(shop, "-", "_")),
          Get(shops_data, Replace(shop, "_", "-"))),
       Get(shops_data, shop))

\* Line 74: the exact key, then "-" -> "_", then "_" -> "-".
Lookup(shops_data, shop) ==
    Or(Or(Get(shops_data, shop),
          Get(shops_data, Replace(shop, "-", "_"))),
       Get(shops_data, Replace(shop, "_", "-")))

\* Line 76: shop_data and shop_data.get("price") is not None
Priced(shop_data) == Truthy(shop_data) /\ shop_data.price.t \notin {"absent", "null"}

\* Line 77: float(...) raises ValueError on a non-numeric string.
FloatRaises(shop_data) == shop_data.price.t = "str"

\* Line 78: shop_data.get("available", True)
Available(shop_data) == shop_data.available # "false"

\* Lines 81-82: first image, or None
FirstImage(shop_data) ==
    LET images == IF shop_data.images = None THEN <<>> ELSE shop_data.images[1]
    IN IF images # <<>> THEN Some(images[1]) ELSE None

\* round(x, 3) on 1/10000 units: the nearest multiple of 10, ties to even.
Round3(x) ==
    LET r == x % 10
        lo == x - r
    IN IF r < 5 THEN lo
       ELSE IF r > 5 THEN lo + 10
       ELSE IF (lo \div 10) % 2 = 0 THEN lo ELSE lo + 10

ProductInShop(sku, title, image, price, available) ==
    [sku |-> sku, title |-> title, image |-> image, price |-> price, available |-> available]

ShopTotal(shop, total, products_in_shop, available_count, missing_count) ==
    [shop |-> shop, total |-> total, products |-> products_in_shop,
     available_count |-> available_count, missing_count |-> missing_count]

\* Lines 66-69: the accumulators of one shop.
Acc0 == [total |-> 0, products_in_shop |-> <<>>, available_count |-> 0,
         missing_count |-> 0, raised |-> FALSE]

\* Faulty variant: an unavailable priced offer is added to the total as well.
StepProductAddsUnavailable(acc, product, shop) ==
    LET shop_data == Lookup(product.shops, shop)
    IN IF Priced(shop_data)
       THEN IF FloatRaises(shop_data)
            THEN [acc EXCEPT !.raised = TRUE]
            ELSE [acc EXCEPT
                     !.products_in_shop = Append(@, ProductInShop(product.sku, product.title,
                          FirstImage(shop_data), Some(shop_data.price.v), Available(shop_data))),
                     !.total = @ + shop_data.price.v,
                     !.available_count = @ + 1]
       ELSE [acc EXCEPT
                !.missing_count = @ + 1,
                !.products_in_shop = Append(@, ProductInShop(product.sku, product.title,
                     None, None, FALSE))]

\* Faulty variant: a product without a usable offer gets no presentation entry.
StepProductDropsMissing(acc, product, shop) ==
    LET shop_data == Lookup(product.shops, shop)
    IN IF Priced(shop_data)
       THEN IF FloatRaises(shop_data)
            THEN [acc EXCEPT !.raised = TRUE]
            ELSE LET price == shop_data.price.v
                     available == Available(shop_data)
                     withEntry == [acc EXCEPT !.products_in_shop =
                         Append(@, ProductInShop(product.sku, product.title,
                                                 FirstImage(shop_data), Some(price), available))]
                 IN IF available
                    THEN [withEntry EXCEPT !.total = @ + price, !.available_count = @ + 1]
                    ELSE [withEntry EXCEPT !.missing_count = @ + 1]
       ELSE [acc EXCEPT !.missing_count = @ + 1]

\* Lines 72-106: the body of the loop over products, for one product.
StepProduct(acc, product, shop) ==
    LET shop_data == Lookup(product.shops, shop)
    IN IF Priced(shop_data)
       THEN IF FloatRaises(shop_data)
            THEN [acc EXCEPT !.raised = TRUE]
            ELSE LET price == shop_data.price.v
                     available == Available(shop_data)
                     withEntry == [acc EXCEPT !.products_in_shop =
                         Append(@, ProductInShop(product.sku, product.title,
                                                 FirstImage(shop_data), Some(price), available))]
                 IN IF available
                    THEN [withEntry EXCEPT !.total = @ + price, !.available_count = @ + 1]
                    ELSE [withEntry EXCEPT !.missing_count = @ + 1]
       ELSE [acc EXCEPT
                !.missing_count = @ + 1,
                !.products_in_shop = Append(@, ProductInShop(product.sku, product.title,
                     None, None, FALSE))]

RECURSIVE ProductLoop(_, _, _, _)
\* Lines 71-106: for product in products (an exception ends the loop).
ProductLoop(acc, prods, shop, i) ==
    IF i > Len(prods) \/ acc.raised THEN acc
    ELSE ProductLoop(StepProduct(acc, prods[i], shop), prods, shop, i + 1)

\* Faulty variant: a shop is emitted even when none of its products is available.
EmitsAlways(acc) == acc.available_count >= 0

\* Line 108: only shops that have at least one product are emitted.
Emits(acc) == acc.available_count > 0

RECURSIVE ShopLoop(_, _, _, _)
\* Lines 63-115: for shop in shop_list. The result is [raised, shop_totals].
ShopLoop(res, prods, shops, j) ==
    IF j > Len(shops) \/ res.raised THEN res
    ELSE LET acc == ProductLoop(Acc0, prods, shops[j], 1)
         IN IF acc.raised THEN [res EXCEPT !.raised = TRUE]
            ELSE IF Emits(acc)
                 THEN ShopLoop([res EXCEPT !.shop_totals =
                                   Append(@, ShopTotal(shops[j], Round3(acc.total),
                                        acc.products_in_shop, acc.available_count,
                                        acc.missing_count))],
                               prods, shops, j + 1)
                 ELSE ShopLoop(res, prods, shops, j + 1)

\* Faulty variant: the key is (total, missing_count).
KeyLeqTotalFirst(a, b) ==
    \/ a.total < b.total
    \/ a.total = b.total /\ a.missing_count <= b.missing_count

\* Line 118: key (missing_count, total), compared as tuples: key(a) <= key(b).
KeyLeq(a, b) ==
    \/ a.missing_count < b.missing_count
    \/ a.missing_count = b.missing_count /\ a.total <= b.total

\* Faulty variant: an element is inserted before the elements with an equal key.
InsertBeforeEqual(x, sorted) ==
    LET before == {k \in 1..Len(sorted) : KeyLeq(sorted[k], x) /\ ~KeyLeq(x, sorted[k])}
        n == Cardinality(before)
    IN SubSeq(sorted, 1, n) \o <<x>> \o SubSeq(sorted, n + 1, Len(sorted))

\* Insertion of x into a sorted list after every element whose key is <= key(x).
Insert(x, sorted) ==
    LET before == {k \in 1..Len(sorted) : KeyLeq(sorted[k], x)}
        n == Cardinality(before)
    IN SubSeq(sorted, 1, n) \o <<x>> \o SubSeq(sorted, n + 1, Len(sorted))

RECURSIVE SortFrom(_, _, _)
SortFrom(sorted, list, i) ==
    IF i > Len(list) THEN sorted ELSE SortFrom(Insert(list[i], sorted), list, i + 1)

\* Line 118: list.sort(key=...) is a stable sort; the stable sort of a list is unique.
Sort(list) == SortFrom(<<>>, list, 1)

\* Faulty variant: no fallback when no shop carries every product.
BestIndexNoFallback(shop_totals) ==
    LET full == {k \in 1..Len(shop_totals) :
                    shop_totals[k].missing_count = 0 /\ shop_totals[k].available_count > 0}
    IN IF full # {} THEN CHOOSE k \in full : \A m \in full : k <= m
       ELSE 0

\* Lines 121-133: index of the best entry, 0 when there is none.
BestIndex(shop_totals) ==
    LET full == {k \in 1..Len(shop_totals) :
                    shop_totals[k].missing_count = 0 /\ shop_totals[k].available_count > 0}
    IN IF full # {} THEN CHOOSE k \in full : \A m \in full : k <= m
       ELSE IF shop_totals # <<>> THEN 1
       ELSE 0

\* Lines 61-135: the outcome of calculate_shop_totals_for_products(products, shop_list).
calculate_shop_totals_for_products(prods, shops) ==
    LET res == ShopLoop([raised |-> FALSE, shop_totals |-> <<>>], prods, shops, 1)
        shop_totals == Sort(res.shop_totals)
        best == BestIndex(shop_totals)
    IN IF res.raised
       THEN [status |-> "raised", shop_totals |-> <<>>, best_shop |-> None, best_total |-> None]
       ELSE [status |-> "returned",
             shop_totals |-> shop_totals,
             best_shop |-> IF best = 0 THEN None ELSE Some(shop_totals[best].shop),
             best_total |-> IF best = 0 THEN None ELSE Some(shop_totals[best].total)]

(***************************************************************************)
(* Inputs of the ranking function.                                         *)
(***************************************************************************)
Sku(i) == <<"sku", i>>
Title(i) == <<"title", i>>

\* The sets of at most MaxOffers (product, key) slots of n products.
SlotSets(n) == {T \in SUBSET ((1..n) \X ShopIds) : Cardinality(T) <= MaxOffers}

\* The product list of n products whose offers are f, a function on a set of slots.
ProductsOf(n, f) ==
    [i \in 1..n |->
        [sku |-> Sku(i), title |-> Title(i),
         shops |-> [k \in {k \in ShopIds : <<i, k>> \in DOMAIN f} |-> f[<<i, k>>]]]]

NoDup(s) == \A i, j \in DOMAIN s : i # j => s[i] # s[j]

ShopLists == UNION { {s \in [1..n -> ShopIds] : NoDup(s)} : n \in 0..MaxShops }

Pending == [status |-> "pending", shop_totals |-> <<>>, best_shop |-> None, best_total |-> None]

NoRequest == [items |-> <<>>]
NoResponse == [status |-> 0, para_result |-> None, retail_result |-> None]

Init ==
    /\ \E n \in 0..MaxProducts : \E S \in SlotSets(n) : \E f \in [S -> OfferVals] :
           products = ProductsOf(n, f)
    /\ shop_list \in ShopLists
    /\ out = Pending
    /\ request = NoRequest
    /\ para_catalog = <<>>
    /\ retail_catalog = <<>>
    /\ response = NoResponse
    /\ db_calls = <<>>
    /\ stdout = <<>>

\* One call of calculate_shop_totals_for_products on the inputs.
Rank ==
    /\ out.status = "pending"
    /\ out' = calculate_shop_totals_for_products(products, shop_list)
    /\ UNCHANGED <<products, shop_list, request, para_catalog, retail_catalog, response,
                   db_calls, stdout>>

Next == Rank

Spec == Init /\ [][Next]_vars

(***************************************************************************)
(* The request handler calculate_best_shop.                                *)
(***************************************************************************)
\* Lines 10-11
parashop == <<"p", "a", "r", "a", "s", "h", "o", "p">>
pharma_hyphen_shop == <<"p", "h", "a", "r", "m", "a", "-", "s", "h", "o", "p">>
pharma_underscore_shop == <<"p", "h", "a", "r", "m", "a", "_", "s", "h", "o", "p">>
parafendri == <<"p", "a", "r", "a", "f", "e", "n", "d", "r", "i">>
mytek == <<"m", "y", "t", "e", "k">>
tunisianet == <<"t", "u", "n", "i", "s", "i", "a", "n", "e", "t">>
spacenet == <<"s", "p", "a", "c", "e", "n", "e", "t">>

PARA_SHOPS == <<parashop, pharma_hyphen_shop, parafendri>>
RETAIL_SHOPS == <<mytek, tunisianet, spacenet>>

\* bson.ObjectId(str): the string must be 24 hexadecimal digits, else InvalidId.
OidLen == 24
HexDigits == {"0", "1", "2", "3", "4", "5", "6", "7", "8", "9",
              "a", "b", "c", "d", "e", "f", "A", "B", "C", "D", "E", "F"}

Lower(c) ==
    CASE c = "A" -> "a" [] c = "B" -> "b" [] c = "C" -> "c"
      [] c = "D" -> "d" [] c = "E" -> "e" [] c = "F" -> "f" [] OTHER -> c

ObjectIdValid(sku) == Len(sku) = OidLen /\ \A i \in DOMAIN sku : sku[i] \in HexDigits

\* The id that ObjectId(sku) denotes, written as str() prints it: lower-case hex.
ObjectId(sku) == [i \in DOMAIN sku |-> Lower(sku[i])]

\* Lines 152-160: one item of the request.
ParseStep(st, item) ==
    IF ObjectIdValid(item.sku)
    THEN IF item.source = "para"
         THEN [st EXCEPT !.para_ids = Append(@, ObjectId(item.sku))]
         ELSE [st EXCEPT !.retail_ids = Append(@, ObjectId(item.sku))]
    ELSE [st EXCEPT !.printed = Append(@, item.sku)]

RECURSIVE ParseLoopBreaks(_, _, _)
\* Faulty variant: the first malformed identifier ends the loop (break for continue).
ParseLoopBreaks(st, items, i) ==
    IF i > Len(items) THEN st
    ELSE IF ~ObjectIdValid(items[i].sku) THEN ParseStep(st, items[i])
    ELSE ParseLoopBreaks(ParseStep(st, items[i]), items, i + 1)

RECURSIVE ParseLoop(_, _, _)
\* Lines 148-160: for item in request.items
ParseLoop(st, items, i) ==
    IF i > Len(items) THEN st
    ELSE ParseLoop(ParseStep(st, items[i]), items, i + 1)

\* collection.find({"_id": {"$in": ids}}).to_list(): the matching documents, each
\* once, in the collection's order.
find(collection, ids) ==
    LET Test(doc) == \E n \in DOMAIN ids : ids[n] = doc._id
    IN SelectSeq(collection, Test)

\* Lines 171-176 and 184-189: the product built from a document.
ToProduct(doc, source) ==
    [sku |-> doc._id,
     title |-> IF doc.title = None THEN "Unknown" ELSE doc.title[1],
     shops |-> IF doc.shops = None THEN <<>> ELSE doc.shops[1],
     source |-> source]

CategoryResult(category, category_label, ranked, prods) ==
    [category |-> category, category_label |-> category_label,
     best_shop |-> ranked.best_shop, best_total |-> ranked.best_total,
     shop_totals |-> ranked.shop_totals,
     products |-> [i \in DOMAIN prods |-> [sku |-> prods[i].sku, title |-> prods[i].title]]]

\* Faulty variant: a result is built for a category without products too.
ResultForAlways(category, category_label, prods, shops) ==
    LET ranked == calculate_shop_totals_for_products(prods, shops)
    IN [raised |-> ranked.status = "raised",
        result |-> Some(CategoryResult(category, category_label, ranked, prods))]

\* Lines 195-204 and 206-215: the result of one category, None without products.
ResultFor(category, category_label, prods, shops) ==
    IF prods # <<>>
    THEN LET ranked == calculate_shop_totals_for_products(prods, shops)
         IN [raised |-> ranked.status = "raised",
             result |-> Some(CategoryResult(category, category_label, ranked, prods))]
    ELSE [raised |-> FALSE, result |-> None]

(***************************************************************************)
(* Inputs of the handler: requests and the two merged_products collections.*)
(***************************************************************************)
Rep(c, n) == [i \in 1..n |-> c]

SkuVals == {Rep("a", OidLen), Rep("b", OidLen), Rep("A", OidLen),
            Rep("a", OidLen - 1), Rep("g", OidLen)}

Items == [sku : SkuVals, source : {"para", "retail", "other"}]

Doc(id, title, shops) == [_id |-> id, title |-> title, shops |-> shops]

pdoc1 == Doc(Rep("a", OidLen), Some("Doliprane"),
             Some(pharma_underscore_shop :> Dict(PNum(100000), "true", Some(<<"i1">>))
                  @@ parashop :> Dict(PNum(80000), "false", None)))
pdoc2 == Doc(Rep("b", OidLen), None, None)
pdoc3 == Doc(Rep("b", OidLen), Some("Vichy"),
             Some(parafendri :> Dict(PStr, "true", None)))

rdoc1 == Doc(Rep("a", OidLen), Some("Laptop"),
             Some(mytek :> Dict(PNum(50004), "absent", Some(<<>>))))
rdoc2 == Doc(Rep("b", OidLen), None,
             Some(tunisianet :> Dict(PNum(100000), "false", None)
                  @@ mytek :> Dict(PNum(80000), "true", None)))

ParaCatalogs == {<<>>, <<pdoc1>>, <<pdoc2, pdoc1>>, <<pdoc1, pdoc3>>}
RetailCatalogs == {<<>>, <<rdoc1>>, <<rdoc2, rdoc1>>}

InitBag ==
    /\ products = <<>>
    /\ shop_list = <<>>
    /\ out = Pending
    /\ \E n \in 0..MaxItems : \E items \in [1..n -> Items] : request = [items |-> items]
    /\ para_catalog \in ParaCatalogs
    /\ retail_catalog \in RetailCatalogs
    /\ response = NoResponse
    /\ db_calls = <<>>
    /\ stdout = <<>>

\* Lines 139-220: one POST /best-shop request, handled from start to end. The find
\* calls made and the lines printed are recorded; an exception of the ranking is
\* answered with status 500. (\E x \in {e} binds x to the value of e.)
BestShop ==
    /\ response.status = 0
    /\ IF request.items = <<>>
       THEN /\ response' = [status |-> 400, para_result |-> None, retail_result |-> None]
            /\ db_calls' = <<>>
            /\ stdout' = <<>>
       ELSE \E parsed \in {ParseLoop([para_ids |-> <<>>, retail_ids |-> <<>>,
                                      printed |-> <<>>], request.items, 1)} :
            \E para_docs \in {IF parsed.para_ids # <<>>
                              THEN find(para_catalog, parsed.para_ids) ELSE <<>>} :
            \E retail_docs \in {IF parsed.retail_ids # <<>>
                                THEN find(retail_catalog, parsed.retail_ids) ELSE <<>>} :
            \E para_products \in
                   {[i \in DOMAIN para_docs |-> ToProduct(para_docs[i], "para")]} :
            \E retail_products \in
                   {[i \in DOMAIN retail_docs |-> ToProduct(retail_docs[i], "retail")]} :
            \E para \in {ResultFor("para", "Parapharmacie", para_products, PARA_SHOPS)} :
            \E retail \in {ResultFor("retail", "Electronique", retail_products,
                                     RETAIL_SHOPS)} :
               /\ response' =
                     IF para.raised \/ retail.raised
                     THEN [status |-> 500, para_result |-> None, retail_result |-> None]
                     ELSE [status |-> 200, para_result |-> para.result,
                           retail_result |-> retail.result]
               /\ db_calls' =
                     (IF parsed.para_ids # <<>>
                      THEN <<[db |-> "PARA", ids |-> parsed.para_ids]>> ELSE <<>>)
                     \o (IF parsed.retail_ids # <<>>
                         THEN <<[db |-> "Retails", ids |-> parsed.retail_ids]>> ELSE <<>>)
               /\ stdout' = parsed.printed
    /\ UNCHANGED <<products, shop_list, out, request, para_catalog, retail_catalog>>

NextBag == BestShop

SpecBag == InitBag /\ [][NextBag]_vars

(***************************************************************************)
(* Properties of calculate_shop_totals_for_products, checked under Spec.   *)
(***************************************************************************)
Returned == out.status = "returned"

\* The offer the code matches to product i at a shop.
Matching(i, shop) == Lookup(products[i].shops, shop)

\* The products of the input with a priced, available matching offer at a shop.
Buyable(shop) ==
    {i \in DOMAIN products : Priced(Matching(i, shop)) /\ Available(Matching(i, shop))}

RECURSIVE SumPrices(_, _)
\* The exact sum of the prices of a set of products at a shop.
SumPrices(shop, I) ==
    IF I = {} THEN 0
    ELSE LET i == CHOOSE x \in I : TRUE
         IN Matching(i, shop).price.v + SumPrices(shop, I \ {i})

\* The position of a shop in shop_list (the lists of the model hold no duplicates).
Pos(shop) == CHOOSE j \in DOMAIN shop_list : shop_list[j] = shop

FullEntries == {k \in DOMAIN out.shop_totals : out.shop_totals[k].missing_count = 0}

\* C1: the best shop is the first entry of the sorted list with missing_count 0, else
\* the first entry of the list, else (empty list, also for empty products) absent;
\* best_total is the total of that entry.
C1_BestShop ==
    Returned =>
        LET st == out.shop_totals
        IN /\ st = <<>> => out.best_shop = None /\ out.best_total = None
           /\ products = <<>> => st = <<>>
           /\ st # <<>> /\ FullEntries # {} =>
                LET k == CHOOSE k \in FullEntries : \A m \in FullEntries : k <= m
                IN out.best_shop = Some(st[k].shop) /\ out.best_total = Some(st[k].total)
           /\ st # <<>> /\ FullEntries = {} =>
                out.best_shop = Some(st[1].shop) /\ out.best_total = Some(st[1].total)

\* C1 witness: no shop carries every product and the fallback picks among two entries.
C1_Witness ==
    /\ Returned
    /\ Len(out.shop_totals) >= 2
    /\ FullEntries = {}
    /\ out.best_shop = Some(out.shop_totals[1].shop)

\* C2: an entry with fewer missing products precedes one with more, whatever the
\* totals; among equal missing counts a strictly lower total comes first.
C2_SortedByMissingThenTotal ==
    Returned =>
        \A a, b \in DOMAIN out.shop_totals :
            LET A == out.shop_totals[a]
                B == out.shop_totals[b]
            IN /\ A.missing_count < B.missing_count => a < b
               /\ A.missing_count = B.missing_count /\ A.total < B.total => a < b

\* C2 witness: an entry with fewer missing products and a higher total comes first,
\* and the unsorted order was the other way round.
C2_Witness ==
    /\ Returned
    /\ \E a, b \in DOMAIN out.shop_totals :
          /\ a < b
          /\ out.shop_totals[a].missing_count < out.shop_totals[b].missing_count
          /\ out.shop_totals[a].total > out.shop_totals[b].total
          /\ Pos(out.shop_totals[a].shop) > Pos(out.shop_totals[b].shop)

\* C3: no emitted entry has available_count 0, and a shop of shop_list is emitted
\* iff some product has a priced, available offer matching it.
C3_EmittedIffAvailable ==
    Returned =>
        /\ \A k \in DOMAIN out.shop_totals : out.shop_totals[k].available_count > 0
        /\ \A j \in DOMAIN shop_list :
              (\E k \in DOMAIN out.shop_totals : out.shop_totals[k].shop = shop_list[j])
                  <=> Buyable(shop_list[j]) # {}

\* C3 witness: one shop of the list is emitted and another, which has only
\* unavailable or unpriced offers, is left out.
C3_Witness ==
    /\ Returned
    /\ out.shop_totals # <<>>
    /\ \E j \in DOMAIN shop_list :
          /\ \A k \in DOMAIN out.shop_totals : out.shop_totals[k].shop # shop_list[j]
          /\ \E i \in DOMAIN products : Truthy(Matching(i, shop_list[j]))

\* A matching offer whose price is negative or not a number.
BadPrice(shop_data) ==
    /\ Truthy(shop_data)
    /\ \/ shop_data.price.t = "str"
       \/ shop_data.price.t = "num" /\ shop_data.price.v < 0

\* C4: an offer with a negative or non-numeric price is treated as having no price:
\* the call returns, the product is counted as missing, its entry has no price and
\* available false, and nothing is added to the total.
C4_BadPriceIsNoPrice ==
    out.status # "pending" =>
        /\ out.status = "returned"
        /\ \A k \in DOMAIN out.shop_totals :
              LET e == out.shop_totals[k]
                  good == {i \in Buyable(e.shop) : ~BadPrice(Matching(i, e.shop))}
              IN /\ \A i \in DOMAIN products :
                      BadPrice(Matching(i, e.shop)) =>
                          e.products[i].price = None /\ ~e.products[i].available
                 /\ e.total = Round3(SumPrices(e.shop, good))
                 /\ e.missing_count = Len(products) - Cardinality(good)

\* The entry of the offer map found by taking the first of the three keys that is
\* present in the map, whatever is stored under it.
FirstPresent(shops_data, shop) ==
    LET keys == <<shop, Replace(shop, "-", "_"), Replace(shop, "_", "-")>>
        hits == {n \in 1..3 : keys[n] \in DOMAIN shops_data}
    IN IF hits = {} THEN NoneValue
       ELSE shops_data[keys[CHOOSE n \in hits : \A m \in hits : n <= m]]

\* The entry found by taking the first of the three keys under which a non-empty
\* offer (neither null nor {}) is stored.
FirstNonEmpty(shops_data, shop) ==
    LET keys == <<shop, Replace(shop, "-", "_"), Replace(shop, "_", "-")>>
        hits == {n \in 1..3 : keys[n] \in DOMAIN shops_data /\ Truthy(shops_data[keys[n]])}
    IN IF hits = {} THEN NoneValue
       ELSE shops_data[keys[CHOOSE n \in hits : \A m \in hits : n <= m]]

\* The presentation entry that an offer yields for a product.
EntryOf(product, shop_data) ==
    IF Priced(shop_data)
    THEN ProductInShop(product.sku, product.title, FirstImage(shop_data),
                       Some(shop_data.price.v), Available(shop_data))
    ELSE ProductInShop(product.sku, product.title, None, None, FALSE)

\* C5 as stated: the offer used is the one under the first key present in the map.
C5_FirstPresentKeyWins ==
    Returned =>
        \A k \in DOMAIN out.shop_totals : \A i \in DOMAIN products :
            out.shop_totals[k].products[i] =
                EntryOf(products[i], FirstPresent(products[i].shops, out.shop_totals[k].shop))

\* C5 amended: the offer used is the one under the first of the keys (exact, "-" to
\* "_", "_" to "-") that holds a non-empty offer; a non-empty offer under the exact
\* key wins even without a price.
C5_FirstNonEmptyKeyWins ==
    Returned =>
        \A k \in DOMAIN out.shop_totals : \A i \in DOMAIN products :
            out.shop_totals[k].products[i] =
                EntryOf(products[i], FirstNonEmpty(products[i].shops, out.shop_totals[k].shop))

\* C5 witness: for an emitted shop the exact key is absent, both variant keys hold
\* different priced offers, and the entry shows the "-" to "_" one.
C5_Witness ==
    /\ Returned
    /\ \E k \in DOMAIN out.shop_totals : \E i \in DOMAIN products :
          LET shop == out.shop_totals[k].shop
              d == products[i].shops
              v1 == Replace(shop, "-", "_")
              v2 == Replace(shop, "_", "-")
          IN /\ shop \notin DOMAIN d
             /\ v1 \in DOMAIN d /\ v2 \in DOMAIN d
             /\ Priced(d[v1]) /\ Priced(d[v2]) /\ d[v1] # d[v2]
             /\ out.shop_totals[k].products[i] = EntryOf(products[i], d[v1])

\* The part of C6 that does not concern the value of total; B is Buyable(e.shop).
C6_Counts(e, B) ==
    /\ e.available_count = Cardinality(B)
    /\ e.missing_count = Len(products) - Cardinality(B)
    /\ \A i \in DOMAIN products \ B :
          LET sd == Matching(i, e.shop)
          IN Priced(sd) =>
                /\ ~Available(sd)
                /\ e.products[i].price = Some(sd.price.v)
                /\ ~e.products[i].available

\* C6 as stated: total is the sum of the prices of the priced, available products.
C6_TotalIsSum ==
    Returned =>
        \A k \in DOMAIN out.shop_totals : \A B \in {Buyable(out.shop_totals[k].shop)} :
            LET e == out.shop_totals[k]
            IN e.total = SumPrices(e.shop, B) /\ C6_Counts(e, B)

\* C6 amended: total is that sum rounded to 3 fractional digits.
C6_TotalIsRoundedSum ==
    Returned =>
        \A k \in DOMAIN out.shop_totals : \A B \in {Buyable(out.shop_totals[k].shop)} :
            LET e == out.shop_totals[k]
            IN e.total = Round3(SumPrices(e.shop, B)) /\ C6_Counts(e, B)

\* C6 witness: an emitted shop has an available product and a priced, unavailable one.
C6_Witness ==
    /\ Returned
    /\ \E k \in DOMAIN out.shop_totals : \E i \in DOMAIN products :
          LET sd == Matching(i, out.shop_totals[k].shop)
          IN /\ Priced(sd) /\ ~Available(sd)
             /\ out.shop_totals[k].total > 0
             /\ out.shop_totals[k].missing_count = 1

\* C9: entries with equal missing_count and equal total keep the order of shop_list,
\* so on a full tie the best shop is the one earlier in shop_list.
C9_StableOnTies ==
    Returned =>
        /\ \A a, b \in DOMAIN out.shop_totals :
              LET A == out.shop_totals[a]
                  B == out.shop_totals[b]
              IN a < b /\ A.missing_count = B.missing_count /\ A.total = B.total
                    => Pos(A.shop) < Pos(B.shop)
        /\ \A b \in DOMAIN out.shop_totals :
              LET A == out.shop_totals[1]
                  B == out.shop_totals[b]
              IN b # 1 /\ A.missing_count = B.missing_count /\ A.total = B.total
                    => out.best_shop = Some(A.shop) /\ Pos(A.shop) < Pos(B.shop)

\* C9 witness: the two leading entries tie on missing_count and total.
C9_Witness ==
    /\ Returned
    /\ Len(out.shop_totals) >= 2
    /\ out.shop_totals[1].missing_count = out.shop_totals[2].missing_count
    /\ out.shop_totals[1].total = out.shop_totals[2].total
    /\ out.best_shop = Some(out.shop_totals[1].shop)

\* C10: in every entry available_count + missing_count is the number of products, and
\* products holds one presentation entry per input product, in input order; a product
\* without a usable offer has price absent, image absent and available false.
C10_OneEntryPerProduct ==
    Returned =>
        \A k \in DOMAIN out.shop_totals :
            LET e == out.shop_totals[k]
            IN /\ e.available_count + e.missing_count = Len(products)
               /\ Len(e.products) = Len(products)
               /\ \A i \in DOMAIN products :
                     /\ e.products[i].sku = products[i].sku
                     /\ ~Priced(Matching(i, e.shop)) =>
                           /\ e.products[i].price = None
                           /\ e.products[i].image = None
                           /\ ~e.products[i].available

\* C10 witness: an emitted shop lacks a usable offer for the first of two products.
C10_Witness ==
    /\ Returned
    /\ Len(products) = 2
    /\ \E k \in DOMAIN out.shop_totals :
          /\ ~Priced(Matching(1, out.shop_totals[k].shop))
          /\ out.shop_totals[k].products[2].price # None

(***************************************************************************)
(* Properties of calculate_best_shop, checked under SpecBag.               *)
(***************************************************************************)
Handled == response.status # 0

\* The database an item's source selects.
DbOf(item) == IF item.source = "para" THEN "PARA" ELSE "Retails"

CatalogOf(db) == IF db = "PARA" THEN para_catalog ELSE retail_catalog

\* The documents of a database that the well-formed items of the request name.
Resolved(db) ==
    {n \in DOMAIN CatalogOf(db) :
        \E i \in DOMAIN request.items :
            /\ ObjectIdValid(request.items[i].sku)
            /\ DbOf(request.items[i]) = db
            /\ ObjectId(request.items[i].sku) = CatalogOf(db)[n]._id}

ResultOf(db) == IF db = "PARA" THEN response.para_result ELSE response.retail_result

\* C7: in a response a category's result is absent iff no product was resolved for
\* it, a present result never has an empty products list, and a request that
\* resolves nothing for either category succeeds with both results absent.
C7_AbsentIffNoProducts ==
    /\ response.status = 200 =>
          \A db \in {"PARA", "Retails"} :
              /\ ResultOf(db) = None <=> Resolved(db) = {}
              /\ ResultOf(db) # None =>
                    Len(ResultOf(db)[1].products) = Cardinality(Resolved(db))
    /\ Handled /\ request.items # <<>> /\ Resolved("PARA") = {} /\ Resolved("Retails") = {} =>
          /\ response.status = 200
          /\ response.para_result = None
          /\ response.retail_result = None

\* C7 witness: a request with items resolves nothing for either category.
C7_Witness ==
    /\ response.status = 200
    /\ \E i \in DOMAIN request.items : ObjectIdValid(request.items[i].sku)
    /\ db_calls # <<>>
    /\ response.para_result = None
    /\ response.retail_result = None

Malformed(item) == ~ObjectIdValid(item.sku)

\* A document whose offers hold a price that is not a number.
HasNonNumericPrice(doc) ==
    /\ doc.shops # None
    /\ \E k \in DOMAIN doc.shops[1] : doc.shops[1][k].price.t = "str"

\* C8: an empty item list is answered 400 with nothing parsed, looked up or ranked;
\* otherwise malformed items are skipped without failing the request, and every
\* well-formed item is looked up in its category's collection and evaluated.
C8_EmptyRejectedMalformedSkipped ==
    Handled =>
        /\ request.items = <<>> =>
              /\ response.status = 400
              /\ db_calls = <<>> /\ stdout = <<>>
              /\ response.para_result = None /\ response.retail_result = None
        /\ request.items # <<>> =>
              /\ response.status # 400
              /\ response.status = 500 =>
                    \E db \in {"PARA", "Retails"} : \E n \in Resolved(db) :
                        HasNonNumericPrice(CatalogOf(db)[n])
              /\ LET IsMalformed(item) == Malformed(item)
                     skipped == SelectSeq(request.items, IsMalformed)
                 IN stdout = [i \in DOMAIN skipped |-> skipped[i].sku]
              /\ \A i \in DOMAIN request.items :
                    LET item == request.items[i]
                    IN ~Malformed(item) =>
                          /\ \E c \in DOMAIN db_calls :
                                /\ db_calls[c].db = DbOf(item)
                                /\ \E m \in DOMAIN db_calls[c].ids :
                                      db_calls[c].ids[m] = ObjectId(item.sku)
                          /\ response.status = 200 =>
                                \A n \in DOMAIN CatalogOf(DbOf(item)) :
                                    CatalogOf(DbOf(item))[n]._id = ObjectId(item.sku) =>
                                        /\ ResultOf(DbOf(item)) # None
                                        /\ LET r == ResultOf(DbOf(item))[1]
                                           IN /\ \E q \in DOMAIN r.products :
                                                    r.products[q].sku = ObjectId(item.sku)
                                              /\ \A t \in DOMAIN r.shop_totals :
                                                    \E q \in DOMAIN r.shop_totals[t].products :
                                                        r.shop_totals[t].products[q].sku
                                                            = ObjectId(item.sku)

\* C8 witness: a malformed item comes first, the well-formed item after it is
\* resolved and ranked.
C8_Witness ==
    /\ response.status = 200
    /\ Len(request.items) = 2
    /\ Malformed(request.items[1])
    /\ ~Malformed(request.items[2])
    /\ stdout # <<>>
    /\ ResultOf(DbOf(request.items[2])) # None
    /\ ResultOf(DbOf(request.items[2]))[1].shop_totals # <<>>

====
